---- MODULE Spec2Model ----
(***************************************************************************)
(* Model of the character validator of wd-maya-tools: the validation       *)
(* checklist of the main window (wd_validator/gui.py, validation_main.py,  *)
(* validation_tools.py, utilities.py), its export buttons, the             *)
(* joint-mapping window (wd_validator/rig_retargeting_gui.py), and, each   *)
(* on its own, the stored data, the history bypass and the plate loader.   *)
(*                                                                         *)
(* The Maya scene is the environment: the outcome of a check that only     *)
(* queries the scene is drawn from the statuses that check can return.     *)
(* A Python exception ends the callback that raised it; what the callback  *)
(* had assigned before stays assigned (field "raised" of a run state).     *)
(***************************************************************************)
EXTENDS Integers, Sequences, FiniteSets, TLC

VARIABLES
    status,            \* gui.validation_windows[k]['status'], "unset" when the key is missing
    validation_data,   \* scene_data.validation_data
    returned,          \* history: what each check function returned in the last run ("none": not called)
    export_enable,     \* gui.export_enable
    export_char_btn,   \* enable state of the 'Export without xGen' button
    export_all_btn,    \* enable state of the 'Export with xGen' button
    usd,               \* value of the 'Enable USD Support' checkbox
    face_geo,          \* scene_data.face_geo is set
    face_mesh,         \* the 'face_mesh' key is stored in the scene
    face_btn,          \* command bound to the face button: "add" (set_face_geo) or "remove"
    rig_selection,     \* scene_data.rig_selection ("None" or the root joint)
    phase,             \* "constructed": before main.run's first validation_run; "ready": after
    lastOp,            \* history: the callback that ran last
    raised,            \* history: the last callback ended with an exception
    ee_ran,            \* history: enable_export in the last callback: "no", "done", "raised"
    fixes,             \* history: remediation procedures the last fix_button called
    writes,            \* history: how often the last callback wrote the status of each validator
    mapping_dict,      \* RigRetargetingUI.mapping_dict
    set_bones,         \* RigRetargetingUI.set_bones
    rig_mapping,       \* the stored 'rig_mapping' value ("nodata" when the key is missing)
    joints,            \* the joint hierarchy of the scene: the root joint, then its descendants
    autos,             \* number of Auto Assign passes so far (bounded by MaxAuto)
    released,          \* history: the joint the last callback cleared from a role (None otherwise)
    attempt,           \* history: what the last callback of the joint-mapping window was given
    rev_index,         \* auto_resolve_single_template: index, counted from 1
    rev_role,          \* a role of static.retargeting_templates whose name is looked up
    rev_found,         \* what rev_map answered, and how many entries rev_map has
    file_info,         \* cmds.fileInfo: what a query of each key returns
    written,           \* history: the dict write_data was given last
    read_back,         \* the key and the result of the last read_data
    bypass_meshes,     \* scene_data.meshes_with_history, and the meshes that have a skinCluster
    in_mesh,           \* the node connected to .inMesh of each mesh
    dialog,            \* history: how the user left the last confirmDialog
    plate_env,         \* the plate loader's surroundings: magick, frames, sequencer shots
    image_planes,      \* the cameras an image plane was attached to, in order
    plates_result,     \* what add_all_plates returned
    exported,          \* history: the export_data.export call of the last initiate_export
    success_msg,       \* history: the last initiate_export emitted its success message
    usd_answer,        \* history: the answer to the USD warning of the last initiate_export
    revalidated        \* history: the mode of the validation the last initiate_export ran

rigVars == <<mapping_dict, set_bones, rig_mapping, joints, autos, released, attempt>>
vars    == <<status, validation_data, returned, export_enable, export_char_btn, export_all_btn,
             usd, face_geo, face_mesh, face_btn, rig_selection, phase, lastOp, raised, ee_ran, fixes,
             writes,
             mapping_dict, set_bones, rig_mapping, joints, autos, released, attempt,
             rev_index, rev_role, rev_found, file_info, written, read_back,
             bypass_meshes, in_mesh, dialog, plate_env, image_planes, plates_result,
             exported, success_msg, usd_answer, revalidated>>

\* the state of the validator's two windows
windowVars ==
    <<status, validation_data, returned, export_enable, export_char_btn, export_all_btn,
      usd, face_geo, face_mesh, face_btn, rig_selection, phase, lastOp, raised, ee_ran, fixes,
      writes, rigVars>>

templateVars == <<rev_index, rev_role, rev_found>>
storeVars == <<file_info, written, read_back>>
bypassVars == <<bypass_meshes, in_mesh, dialog>>
plateVars == <<plate_env, image_planes, plates_result>>
exportVars == <<exported, success_msg, usd_answer, revalidated>>

\* what the callbacks of the two windows leave alone
toolVars == <<templateVars, storeVars, bypassVars, plateVars, exportVars>>

(***************************************************************************)
(* static.py: the validators                                               *)
(***************************************************************************)

\* the keys of static.validation_windows_data, in dict order
validation_windows_data ==
    << "header_1", "scene_saved", "referenced_data", "header_2", "geo_check", "rig_check",
       "rig_group_check", "history_check", "poly_count_check", "retargeting_check",
       "ik_check", "face_check", "material_type_check", "naming_check",
       "material_connections_check", "file_nodes_check", "textures_check", "xGen_check" >>

IsHeader(k) == k \in {"header_1", "header_2"}

WindowKeys == {validation_windows_data[i] : i \in 1..Len(validation_windows_data)}

\* the keys generate_validation_windows puts in gui.validation_windows, in order
ValidatorOrder == SelectSeq(validation_windows_data, LAMBDA k : ~IsHeader(k))

ValidatorIds == {ValidatorOrder[i] : i \in 1..Len(ValidatorOrder)}

\* every key a check function writes in scene_data.validation_data
DataKeys == WindowKeys \cup {"all_group_check"}

Status == {"pass", "warning", "warning_fix", "fail", "fix", "skip", "aborted"}

VALIDATION_NORMAL == "normal"
VALIDATION_USD == "usd"

(***************************************************************************)
(* A run state: the fields a callback of the main window reads and writes. *)
(***************************************************************************)

\* no status was written yet
NoWrites == [k \in ValidatorIds |-> 0]

Cur ==
    [status |-> status, vdata |-> validation_data, ret |-> returned,
     export_enable |-> export_enable, btn_char |-> export_char_btn, btn_all |-> export_all_btn,
     face_geo |-> face_geo, face_mesh |-> face_mesh, face_btn |-> face_btn,
     rig_selection |-> rig_selection, raised |-> FALSE, ee_ran |-> "no",
     writes |-> NoWrites]

\* gui.ValidationUI.update_status: a val_type that is not a header is looked up in
\* validation_windows; a val_type with no entry there raises KeyError
update_status(s, val_type, st) ==
    IF s.raised \/ IsHeader(val_type) THEN s
    ELSE IF val_type \notin ValidatorIds THEN [s EXCEPT !.raised = TRUE]
    ELSE [s EXCEPT !.status[val_type] = st, !.writes[val_type] = @ + 1]

\* accepted_statuses of gui.ValidationUI.enable_export
AcceptedWithFix == {"pass", "skip", "warning", "warning_fix", "fix"}
accepted_statuses == {"pass", "skip", "warning", "warning_fix"}

\* the test that enables 'Export with xGen' once export_enable holds
XgenAccepted(st) == st \in {"pass", "skip", "warning", "warning_fix"}
XgenExportable(st) == st = "pass"

\* the loop of enable_export over validation_windows.values(): val['status'] of a
\* validator that never got a status raises KeyError, after export_enable was assigned
RECURSIVE EnableLoop(_, _, _)
EnableLoop(st, i, flag) ==
    IF i > Len(ValidatorOrder) THEN [flag |-> flag, raised |-> FALSE]
    ELSE IF st[ValidatorOrder[i]] = "unset" THEN [flag |-> flag, raised |-> TRUE]
    ELSE EnableLoop(st, i + 1, IF st[ValidatorOrder[i]] \notin accepted_statuses THEN FALSE ELSE flag)

\* gui.ValidationUI.enable_export
enable_export(s) ==
    IF s.raised THEN s
    ELSE LET r == EnableLoop(s.status, 1, TRUE) IN
         IF r.raised
         THEN [s EXCEPT !.export_enable = r.flag, !.raised = TRUE, !.ee_ran = "raised"]
         ELSE [s EXCEPT !.export_enable = r.flag,
                        !.btn_char = r.flag,
                        !.btn_all = r.flag /\ XgenExportable(s.status["xGen_check"]),
                        !.ee_ran = "done"]

\* utilities.reset_validation_data
reset_validation_data(s) ==
    [s EXCEPT !.vdata = [k \in DataKeys |-> IF k \in WindowKeys THEN "None" ELSE "absent"]]

\* abort_validation as it would be if it left alone a validator that has a status already
abort_validation_keeping(s) ==
    IF s.raised THEN s
    ELSE [s EXCEPT !.status = [k \in ValidatorIds |->
                                 IF s.vdata[k] = "None" /\ s.status[k] = "unset"
                                 THEN "aborted" ELSE s.status[k]],
                   !.writes = [k \in ValidatorIds |->
                                 IF s.vdata[k] = "None" /\ s.status[k] = "unset"
                                 THEN s.writes[k] + 1 ELSE s.writes[k]]]

\* utilities.abort_validation: 'aborted' for every key of validation_data whose value is None
abort_validation(s) ==
    IF s.raised THEN s
    ELSE [s EXCEPT !.status = [k \in ValidatorIds |->
                                 IF s.vdata[k] = "None" THEN "aborted" ELSE s.status[k]],
                   !.writes = [k \in ValidatorIds |->
                                 IF s.vdata[k] = "None" THEN s.writes[k] + 1 ELSE s.writes[k]]]

\* a check function of validation_tools that stores its status in validation_data and
\* returns it, followed by the caller's update_status
CheckAndUpdate(s, val, st) ==
    IF s.raised THEN s
    ELSE update_status([s EXCEPT !.vdata[val] = st], val, st)

\* the same inside validation_run, where the history of the run records the call
RunCheck(s, val, st) ==
    IF s.raised THEN s
    ELSE CheckAndUpdate([s EXCEPT !.ret[val] = st], val, st)

ExecAll(S, val, R) == {RunCheck(s, val, st) : s \in S, st \in R}

\* gui.ValidationUI.remove_face_geo
remove_face_geo(s, enable) ==
    IF s.raised THEN s
    ELSE LET s1 == update_status([s EXCEPT !.face_btn = "add", !.face_geo = FALSE,
                                           !.face_mesh = FALSE], "face_check", "skip")
         IN IF enable THEN enable_export(s1) ELSE s1

(***************************************************************************)
(* static.py and rig_retargeting_gui.py: roles and stored joint mapping    *)
(***************************************************************************)

\* the roles of static.metadata_template['body']['bone_names'] kept by the model
Roles == {"Hips", "Spine", "LeftArm"}

\* a joint name is the sequence of its ':'-separated parts; None is the empty name
NoJoint == << >>

\* static.metadata_template['body']['bone_names']: every role mapped to None
NoMapping == [r \in Roles |-> NoJoint]

\* a scene whose root joint is the hip of the 'Wonder Dynamics' template, with a namespaced
\* spine and an 'Unreal Engine' arm
SceneWD == << <<"Hips">>, <<"rig", "Spine">>, <<"upperarm_l">> >>

\* a scene whose hip, below a root no template names, follows the 'DAZ 3d' template while
\* the arm joint carries a 'Wonder Dynamics' name
SceneDaz == << <<"root">>, <<"hip">>, <<"LeftArm">> >>

Scenes == {SceneWD, SceneDaz}

(***************************************************************************)
(* validation_tools.py: the checks whose status depends on modelled state  *)
(***************************************************************************)

PassFail == {"pass", "fail"}

\* the statuses the check function of a validator can return (validation_tools.py)
Returns(val) ==
    CASE val = "referenced_data"       -> {"pass", "fix"}
      [] val = "geo_check"             -> {"pass", "fail", "fix"}
      [] val = "rig_check"             -> {"pass", "fail", "fix", "warning_fix"}
      [] val = "history_check"         -> {"pass", "fix"}
      [] val = "retargeting_check"     -> {"pass", "fail", "warning"}
      [] val = "ik_check"              -> {"pass", "warning"}
      [] val = "face_check"            -> {"pass", "fail", "warning", "skip"}
      [] val = "file_nodes_check"      -> {"pass", "fix"}
      [] val = "xGen_check"            -> {"pass", "warning", "skip"}
      [] OTHER                         -> PassFail

\* validation_tools.retargeting_check on the stored mapping (every stored joint exists)
retargeting_check(rm) ==
    IF ~rm.has THEN "fail"
    ELSE IF rm.map["Hips"] = NoJoint THEN "fail"
    ELSE IF \E r \in Roles : rm.map[r] = NoJoint THEN "warning"
    ELSE "pass"

\* validation_tools.rig_ik_check followed by update_status: without stored mapping the
\* check returns 'warning' before it stores anything in validation_data
rig_ik_check(s, rm) ==
    IF s.raised THEN {s}
    ELSE IF ~rm.has
         THEN {update_status([s EXCEPT !.ret["ik_check"] = "warning"], "ik_check", "warning")}
         ELSE ExecAll({s}, "ik_check", Returns("ik_check"))

\* validation_tools.face_check(scene_data) followed by update_status: no face geometry
\* (or a deleted one) is 'skip' after gui.remove_face_geo(enable_export=False)
face_check(s) ==
    IF s.raised THEN {s}
    ELSE {RunCheck(remove_face_geo(s, FALSE), "face_check", "skip")}
         \cup (IF s.face_geo THEN ExecAll({s}, "face_check", Returns("face_check") \ {"skip"}) ELSE {})

\* validation_tools.rig_check: 'fix' only in USD mode, 'fail' without a root joint
rig_check_results(s, mode) ==
    IF s.rig_selection = "None" THEN {"fail"}
    ELSE IF mode = VALIDATION_USD THEN Returns("rig_check")
    ELSE Returns("rig_check") \ {"fix"}

\* validation_tools.all_group_check
all_group_check_results(mode) ==
    IF mode = VALIDATION_NORMAL THEN {"skip"} ELSE {"fix", "warning_fix", "pass"}

(***************************************************************************)
(* validation_main.py                                                      *)
(***************************************************************************)

\* character_validation, lines 115-144: the checks behind material_type_check
MaterialLevel(s) ==
    IF s.raised THEN {s}
    ELSE IF s.ret["material_type_check"] = "pass"
    THEN LET S1 == ExecAll({s}, "naming_check", Returns("naming_check"))
             S2 == ExecAll(S1, "material_connections_check", Returns("material_connections_check"))
             S3 == ExecAll(S2, "file_nodes_check", Returns("file_nodes_check"))
             S4 == ExecAll(S3, "textures_check", Returns("textures_check"))
             S5 == ExecAll(S4, "xGen_check", Returns("xGen_check"))
         IN {enable_export(x) : x \in S5}
    ELSE {abort_validation(s)}

\* character_validation, lines 89-146: the checks behind rig_group_check
RigGroupLevel(s, rm) ==
    IF s.raised THEN {s}
    ELSE IF s.ret["rig_group_check"] = "pass"
    THEN LET S1 == ExecAll({s}, "poly_count_check", Returns("poly_count_check"))
             S2 == ExecAll(S1, "retargeting_check", {retargeting_check(rm)})
             S3 == UNION {rig_ik_check(x, rm) : x \in S2}
             S4 == UNION {face_check(x) : x \in S3}
             S5 == ExecAll(S4, "material_type_check", Returns("material_type_check"))
         IN UNION {MaterialLevel(x) : x \in S5}
    ELSE {abort_validation(s)}

\* the statuses of rig_check that let character_validation go on (line 73)
RigGateWithFix == {"pass", "warning_fix", "fix"}
RigGate == {"pass", "warning_fix"}

\* character_validation, lines 73-148: the checks behind rig_check
RigLevel(s, mode, rm) ==
    IF s.raised THEN {s}
    ELSE IF s.ret["rig_check"] \in RigGate
    THEN LET S1 == ExecAll({s}, "rig_group_check", Returns("rig_group_check"))
             S2 == ExecAll(S1, "history_check", Returns("history_check"))
             S3 == ExecAll(S2, "all_group_check", all_group_check_results(mode))
         IN UNION {RigGroupLevel(x, rm) : x \in S3}
    ELSE {abort_validation(s)}

\* validation_main.character_validation
character_validation(s, mode, rm) ==
    UNION { IF g.raised THEN {g}
            ELSE IF g.ret["geo_check"] = "pass"
            THEN UNION {RigLevel(x, mode, rm) : x \in ExecAll({g}, "rig_check", rig_check_results(g, mode))}
            ELSE {abort_validation(g)}
          : g \in ExecAll({s}, "geo_check", Returns("geo_check")) }

\* validation_main.scene_validation: both scene checks run, then their conjunction is returned
SceneEitherPasses(s) == s.ret["scene_saved"] = "pass" \/ s.ret["referenced_data"] = "pass"
ScenePasses(s) == s.ret["scene_saved"] = "pass" /\ s.ret["referenced_data"] = "pass"

scene_validation(s) ==
    ExecAll(ExecAll({s}, "scene_saved", Returns("scene_saved")), "referenced_data",
            Returns("referenced_data"))

\* scene_data_collection.CollectExportData.collect_data: the root joint found in the scene
collect_data(s) == {[s EXCEPT !.rig_selection = r] : r \in {"None", "root"}}

\* validation_main.validation_run
validation_run(s, mode, rm) ==
    LET s0 == [reset_validation_data(s) EXCEPT !.ret = [k \in DataKeys |-> "none"]]
    IN UNION { IF ScenePasses(x)
               THEN UNION {character_validation(c, mode, rm) : c \in collect_data(x)}
               ELSE {abort_validation(x)}
             : x \in scene_validation(s0) }

(***************************************************************************)
(* The parts that are studied on their own, before any of them is used     *)
(***************************************************************************)

\* the names of the meshes below GEO
Meshes == {"body", "head", "hair"}

\* the keys of the scene header that the model queries
StoreKeys == {"rig_mapping", "rig_status"}

\* Python's None where it stands beside strings, and a string
PyNone == <<"None">>
PyStr(s) == <<"str", s>>

\* what read_data returns: None, or the dict it decoded (a sequence of key-value pairs)
Nothing == [none |-> TRUE, dict |-> << >>]
Some(d) == [none |-> FALSE, dict |-> d]

IdleTemplates ==
    /\ rev_index = 0
    /\ rev_role = "none"
    /\ rev_found = [done |-> FALSE, role |-> "none", size |-> 0]

IdleStore ==
    /\ file_info = [k \in StoreKeys |-> << >>]
    /\ written = Nothing
    /\ read_back = [key |-> "none", data |-> Nothing]

IdleBypass ==
    /\ bypass_meshes = [listed |-> {}, skinned |-> {}]
    /\ in_mesh = [m \in Meshes |-> "history"]
    /\ dialog = "none"

IdlePlates ==
    /\ plate_env = [magick |-> FALSE, src |-> 0, numbered |-> FALSE, out |-> 0, shots |-> << >>]
    /\ image_planes = << >>
    /\ plates_result = [called |-> FALSE, planes |-> << >>]

IdleExport ==
    /\ exported = "none"
    /\ success_msg = FALSE
    /\ usd_answer = "not_asked"
    /\ revalidated = "none"

NoTools == IdleTemplates /\ IdleStore /\ IdleBypass /\ IdlePlates /\ IdleExport

(***************************************************************************)
(* gui.py: the callbacks of the main window                                *)
(***************************************************************************)

\* gui.ValidationUI.get_validation_mode
get_validation_mode(u) == IF u THEN VALIDATION_USD ELSE VALIDATION_NORMAL

\* gui.ValidationUI.start_validation
start_validation(s, mode, rm) == {enable_export(x) : x \in validation_run(s, mode, rm)}

\* gui.ValidationUI.fix_button, lines 363-380: the remediation procedures called for val_type
Remediation(val_type) ==
    CASE val_type = "file_nodes_check" -> {"fix_empty_file_nodes"}
      [] val_type = "referenced_data"  -> {"reference_data_fix"}
      [] val_type = "geo_check"        -> {"remove_animation_on_geo_fix"}
      [] val_type = "history_check"    -> {"remove_pre_skin_history"}
      [] val_type = "all_group_check"  -> {"all_group_fix"}
      [] val_type = "rig_check"        -> {"joint_name_fix", "remove_animation_on_rig_fix"}
      [] OTHER                         -> {}

\* gui.ValidationUI.fix_button, lines 384-385: start_validation, then enable_export again
fix_button(s, mode, rm) == {enable_export(x) : x \in start_validation(s, mode, rm)}

\* gui.ValidationUI.set_face_geo
set_face_geo(s, sel, res) ==
    IF sel = "inGEO"
    THEN LET s1 == CheckAndUpdate(s, "face_check", res)
             s2 == IF res \in {"pass", "warning"}
                   THEN [s1 EXCEPT !.face_btn = "remove", !.face_geo = TRUE, !.face_mesh = TRUE]
                   ELSE [s1 EXCEPT !.face_btn = "remove", !.face_geo = FALSE]
         IN enable_export(s2)
    ELSE enable_export(update_status(s, "face_check", "skip"))

\* the stored joint mapping the checks read
Stored == rig_mapping

Commit(s, op) ==
    /\ status' = s.status
    /\ validation_data' = s.vdata
    /\ returned' = s.ret
    /\ export_enable' = s.export_enable
    /\ export_char_btn' = s.btn_char
    /\ export_all_btn' = s.btn_all
    /\ face_geo' = s.face_geo
    /\ face_mesh' = s.face_mesh
    /\ face_btn' = s.face_btn
    /\ rig_selection' = s.rig_selection
    /\ raised' = s.raised
    /\ ee_ran' = s.ee_ran
    /\ writes' = s.writes
    /\ lastOp' = op

\* main.run: the first validation_run, right after the window is shown
MainRun ==
    /\ phase = "constructed"
    /\ \E s \in validation_run(Cur, get_validation_mode(usd), Stored) : Commit(s, "main_run")
    /\ phase' = "ready"
    /\ fixes' = {}
    /\ UNCHANGED <<usd, rigVars, toolVars>>

\* the 'Refresh Validation' button
StartValidation ==
    /\ phase = "ready"
    /\ \E s \in start_validation(Cur, get_validation_mode(usd), Stored) : Commit(s, "start_validation")
    /\ fixes' = {}
    /\ UNCHANGED <<usd, phase, rigVars, toolVars>>

\* the 'Enable USD Support' checkbox: changeCommand=self.start_validation
ToggleUsd ==
    /\ phase = "ready"
    /\ usd' = ~usd
    /\ \E s \in start_validation(Cur, get_validation_mode(~usd), Stored) : Commit(s, "toggle_usd")
    /\ fixes' = {}
    /\ UNCHANGED <<phase, rigVars, toolVars>>

\* a status button whose validator has status 'fix' or 'warning_fix' (update_status binds
\* fix_button to it)
FixButton ==
    /\ phase = "ready"
    /\ \E v \in ValidatorIds :
         /\ status[v] \in {"fix", "warning_fix"}
         /\ fixes' = Remediation(v)
         /\ \E s \in fix_button(Cur, get_validation_mode(usd), Stored) : Commit(s, "fix_button")
    /\ UNCHANGED <<usd, phase, rigVars, toolVars>>

\* the '+' button of the face validator
SetFaceGeo ==
    /\ phase = "ready"
    /\ face_btn = "add"
    /\ \E sel \in {"none", "outside", "inGEO"}, res \in Returns("face_check") \ {"skip"} :
         Commit(set_face_geo(Cur, sel, res), "set_face_geo")
    /\ fixes' = {}
    /\ UNCHANGED <<usd, phase, rigVars, toolVars>>

\* the '-' button of the face validator
RemoveFaceGeo ==
    /\ phase = "ready"
    /\ face_btn = "remove"
    /\ Commit(remove_face_geo(Cur, TRUE), "remove_face_geo")
    /\ fixes' = {}
    /\ UNCHANGED <<usd, phase, rigVars, toolVars>>

\* gui.ValidationUI.__init__ with load_saved_data: the face validator gets its status from
\* the stored face mesh, the other validators have none yet
Constructed(f) ==
    [status |-> [k \in ValidatorIds |-> IF k = "face_check" THEN f.st ELSE "unset"],
     vdata |-> [k \in DataKeys |-> IF k = "face_check" /\ f.st # "skip" THEN f.st ELSE "absent"],
     ret |-> [k \in DataKeys |-> "none"],
     export_enable |-> TRUE, btn_char |-> FALSE, btn_all |-> FALSE,
     face_geo |-> f.st \in {"pass", "warning"}, face_mesh |-> f.stored,
     face_btn |-> IF f.st \in {"pass", "warning"} THEN "remove" ELSE "add",
     rig_selection |-> "None", raised |-> FALSE, ee_ran |-> "no", writes |-> NoWrites]

\* load_saved_data: a stored face mesh that exists is checked, anything else is 'skip'
SavedFace ==
    {[st |-> "skip", stored |-> b] : b \in BOOLEAN}
      \cup {[st |-> x, stored |-> TRUE] : x \in {"fail", "warning", "pass"}}

InitUI ==
    \E f \in SavedFace :
        LET c == Constructed(f) IN
        /\ status = c.status
        /\ validation_data = c.vdata
        /\ returned = c.ret
        /\ export_enable = c.export_enable
        /\ export_char_btn = c.btn_char
        /\ export_all_btn = c.btn_all
        /\ face_geo = c.face_geo
        /\ face_mesh = c.face_mesh
        /\ face_btn = c.face_btn
        /\ rig_selection = c.rig_selection
        /\ raised = FALSE
        /\ ee_ran = "no"
        /\ usd = FALSE
        /\ phase = "constructed"
        /\ lastOp = "init"
        /\ fixes = {}
        /\ writes = NoWrites

\* no joint-mapping window yet: nothing stored, nothing mapped
InitNoRig ==
    /\ mapping_dict = NoMapping
    /\ set_bones = << >>
    /\ rig_mapping = [has |-> FALSE, map |-> NoMapping]
    /\ joints = SceneWD
    /\ autos = 0
    /\ released = NoJoint
    /\ attempt = "none"

Init == InitUI /\ InitNoRig /\ NoTools

Next ==
    \/ MainRun
    \/ StartValidation
    \/ ToggleUsd
    \/ FixButton
    \/ SetFaceGeo
    \/ RemoveFaceGeo

Spec == Init /\ [][Next]_vars

(***************************************************************************)
(* enable_export on its own: the checklist holds a status for every        *)
(* validator, as after a validation run that went through, and the export  *)
(* gate is computed from it.                                               *)
(***************************************************************************)

\* how many validators of a drawn checklist have a status other than 'pass'
MaxOdd == 2

\* the statuses a validator can carry after a run: what its check returns, or 'aborted'
\* (the two scene checks are always executed)
Carried(val) ==
    Returns(val) \cup (IF val \in {"scene_saved", "referenced_data"} THEN {} ELSE {"aborted"})

GateInputs ==
    UNION { { [v \in ValidatorIds |-> IF v \in D THEN f[v] ELSE "pass"] :
                f \in {g \in [D -> Status] : \A v \in D : g[v] \in Carried(v) \ {"pass"}} }
            : D \in {X \in SUBSET ValidatorIds : Cardinality(X) <= MaxOdd} }

InitGate ==
    /\ status \in GateInputs
    /\ validation_data = [k \in DataKeys |-> IF k \in ValidatorIds THEN status[k] ELSE "None"]
    /\ returned = [k \in DataKeys |-> "none"]
    /\ export_enable \in BOOLEAN
    /\ export_char_btn = FALSE
    /\ export_all_btn = FALSE
    /\ usd = FALSE
    /\ face_geo = FALSE
    /\ face_mesh = FALSE
    /\ face_btn = "add"
    /\ rig_selection = "root"
    /\ phase = "ready"
    /\ lastOp = "init"
    /\ raised = FALSE
    /\ ee_ran = "no"
    /\ fixes = {}
    /\ writes = NoWrites
    /\ InitNoRig
    /\ NoTools

\* one call of gui.ValidationUI.enable_export
EnableExport ==
    /\ lastOp = "init"
    /\ Commit(enable_export(Cur), "enable_export")
    /\ UNCHANGED <<usd, phase, fixes, rigVars, toolVars>>

SpecGate == InitGate /\ [][EnableExport]_vars

(***************************************************************************)
(* gui.py: initiate_export, called by the two export buttons               *)
(***************************************************************************)

\* how the user can leave the USD warning: one of its two buttons, or closing it
UsdAnswers == {"Cancel and enable USD support", "Continue", "dismiss"}

\* gui.ValidationUI.set_validation_mode: the value the checkbox gets
set_validation_mode(mode) == mode = VALIDATION_USD

\* lines 636-645 as they would be if export_data.export were called whatever the flag says
export_step_unguarded(s, xgen_export) ==
    LET call == IF xgen_export THEN "with_xgen" ELSE "without_xgen"
    IN {[call |-> call, msg |-> TRUE, raised |-> FALSE],
        [call |-> call, msg |-> FALSE, raised |-> TRUE]}

\* gui.ValidationUI.initiate_export, lines 636-645: the call of export_data.export ("none":
\* no call), which may raise, and the message of line 645
export_step(s, xgen_export) ==
    IF s.export_enable
    THEN LET call == IF xgen_export THEN "with_xgen" ELSE "without_xgen"
         IN {[call |-> call, msg |-> TRUE, raised |-> FALSE],
             [call |-> call, msg |-> FALSE, raised |-> TRUE]}
    ELSE {[call |-> "none", msg |-> TRUE, raised |-> FALSE]}

\* gui.ValidationUI.initiate_export; u is the value of the USD checkbox, answer the way
\* the user leaves the warning shown when u is off
initiate_export(s, u, answer, xgen_export, rm) ==
    IF ~u /\ answer = "Cancel and enable USD support"
    THEN LET v == set_validation_mode(VALIDATION_USD)
         IN {[run |-> x, usd |-> v, mode |-> get_validation_mode(v), call |-> "none",
              msg |-> FALSE] : x \in start_validation(s, get_validation_mode(v), rm)}
    ELSE UNION { IF x.raised
                 THEN {[run |-> x, usd |-> u, mode |-> get_validation_mode(u), call |-> "none",
                        msg |-> FALSE]}
                 ELSE {[run |-> [x EXCEPT !.raised = e.raised], usd |-> u,
                        mode |-> get_validation_mode(u), call |-> e.call, msg |-> e.msg] :
                          e \in export_step(x, xgen_export)}
               : x \in start_validation(s, get_validation_mode(u), rm) }

CommitExport(r, op, answer) ==
    /\ Commit(r.run, op)
    /\ usd' = r.usd
    /\ exported' = r.call
    /\ success_msg' = r.msg
    /\ usd_answer' = answer
    /\ revalidated' = r.mode
    /\ fixes' = {}

\* the 'Export without xGen' button, while it is enabled
ExportWithoutXgen ==
    /\ export_char_btn
    /\ \E answer \in IF usd THEN {"not_asked"} ELSE UsdAnswers :
       \E r \in initiate_export(Cur, usd, answer, FALSE, Stored) :
         CommitExport(r, "export_without_xgen", answer)
    /\ UNCHANGED <<phase, rigVars, templateVars, storeVars, bypassVars, plateVars>>

\* the 'Export with xGen' button, while it is enabled
ExportWithXgen ==
    /\ export_all_btn
    /\ \E answer \in IF usd THEN {"not_asked"} ELSE UsdAnswers :
       \E r \in initiate_export(Cur, usd, answer, TRUE, Stored) :
         CommitExport(r, "export_with_xgen", answer)
    /\ UNCHANGED <<phase, rigVars, templateVars, storeVars, bypassVars, plateVars>>

\* the checklists with which enable_export enables 'Export without xGen'
ExportableInputs == {g \in GateInputs : \A v \in ValidatorIds : g[v] \in accepted_statuses}

\* a run went through on a scene that passes every check, the export buttons are as
\* enable_export set them; the scene may have changed since
InitExport ==
    /\ status \in ExportableInputs
    /\ validation_data = [k \in DataKeys |-> IF k \in ValidatorIds THEN status[k] ELSE "None"]
    /\ returned = [k \in DataKeys |-> IF k \in ValidatorIds THEN status[k] ELSE "none"]
    /\ export_enable = TRUE
    /\ export_char_btn = TRUE
    /\ export_all_btn = XgenExportable(status["xGen_check"])
    /\ usd \in BOOLEAN
    /\ face_geo = (status["face_check"] # "skip")
    /\ face_mesh = (status["face_check"] # "skip")
    /\ face_btn = IF status["face_check"] # "skip" THEN "remove" ELSE "add"
    /\ rig_selection = "root"
    /\ phase = "ready"
    /\ lastOp = "start_validation"
    /\ raised = FALSE
    /\ ee_ran = "done"
    /\ fixes = {}
    /\ writes = [k \in ValidatorIds |-> 1]
    /\ InitNoRig
    /\ NoTools

NextExport ==
    \/ ExportWithoutXgen
    \/ ExportWithXgen

SpecExport == InitExport /\ [][NextExport]_vars

\* the state at line 636 of initiate_export: start_validation has returned, the checklist
\* holds a status for every validator and enable_export was computed from it
InitExportStep ==
    /\ status \in GateInputs
    /\ validation_data = [k \in DataKeys |-> IF k \in ValidatorIds THEN status[k] ELSE "None"]
    /\ returned = [k \in DataKeys |-> "none"]
    /\ LET s == enable_export([Constructed([st |-> "skip", stored |-> FALSE]) EXCEPT
                                  !.status = status]) IN
         /\ export_enable = s.export_enable
         /\ export_char_btn = s.btn_char
         /\ export_all_btn = s.btn_all
    /\ usd \in BOOLEAN
    /\ face_geo = FALSE
    /\ face_mesh = FALSE
    /\ face_btn = "add"
    /\ rig_selection = "root"
    /\ phase = "ready"
    /\ lastOp = "init"
    /\ raised = FALSE
    /\ ee_ran = "done"
    /\ fixes = {}
    /\ writes = NoWrites
    /\ InitNoRig
    /\ NoTools

\* lines 636-645 of initiate_export, for either export button
ExportStep ==
    /\ lastOp = "init"
    /\ \E xgen_export \in BOOLEAN : \E e \in export_step(Cur, xgen_export) :
         /\ exported' = e.call
         /\ success_msg' = e.msg
         /\ raised' = e.raised
    /\ lastOp' = "initiate_export"
    /\ revalidated' = get_validation_mode(usd)
    /\ UNCHANGED <<status, validation_data, returned, export_enable, export_char_btn,
                   export_all_btn, usd, face_geo, face_mesh, face_btn, rig_selection, phase,
                   ee_ran, fixes, writes, rigVars, templateVars, storeVars, bypassVars,
                   plateVars, usd_answer>>

SpecExportStep == InitExportStep /\ [][ExportStep]_vars

(***************************************************************************)
(* character_validation from line 89 on, on its own: the checks before it  *)
(* were executed, all_group_check has returned and its status was taken.   *)
(***************************************************************************)

\* the run states at line 89: the scene checks, geo_check and rig_check passed on a scene
\* with a root joint, rig_group_check and history_check returned any of their statuses,
\* all_group_check returned 'skip' (normal mode)
PastAllGroup ==
    LET Start(f) == [reset_validation_data(Constructed(f)) EXCEPT
                        !.ret = [k \in DataKeys |-> "none"], !.rig_selection = "root"]
        Passed(f) == RunCheck(RunCheck(RunCheck(RunCheck(Start(f), "scene_saved", "pass"),
                                                "referenced_data", "pass"),
                                       "geo_check", "pass"),
                              "rig_check", "pass")
        S1 == {Passed(f) : f \in SavedFace}
        S2 == ExecAll(S1, "rig_group_check", Returns("rig_group_check"))
        S3 == ExecAll(S2, "history_check", Returns("history_check"))
    IN {[x EXCEPT !.ret["all_group_check"] = st, !.vdata["all_group_check"] = st] :
           x \in S3, st \in all_group_check_results(VALIDATION_NORMAL)}

\* the stored joint mappings retargeting_check and rig_ik_check may find
StoredMappings ==
    {[has |-> FALSE, map |-> NoMapping], [has |-> TRUE, map |-> NoMapping],
     [has |-> TRUE, map |-> [r \in Roles |-> <<r>>]]}

InitCharacter ==
    /\ \E s \in PastAllGroup :
         /\ status = s.status
         /\ validation_data = s.vdata
         /\ returned = s.ret
         /\ export_enable = s.export_enable
         /\ export_char_btn = s.btn_char
         /\ export_all_btn = s.btn_all
         /\ face_geo = s.face_geo
         /\ face_mesh = s.face_mesh
         /\ face_btn = s.face_btn
         /\ rig_selection = s.rig_selection
         /\ writes = s.writes
    /\ raised = FALSE
    /\ ee_ran = "no"
    /\ usd = FALSE
    /\ phase = "ready"
    /\ lastOp = "init"
    /\ fixes = {}
    /\ mapping_dict = NoMapping
    /\ set_bones = << >>
    /\ rig_mapping \in StoredMappings
    /\ joints = SceneWD
    /\ autos = 0
    /\ released = NoJoint
    /\ attempt = "none"
    /\ NoTools

\* lines 89-146 of character_validation, the writes of the run counted on
CharacterRest ==
    /\ lastOp = "init"
    /\ \E s \in RigGroupLevel([Cur EXCEPT !.writes = writes], Stored) :
         Commit(s, "character_validation")
    /\ UNCHANGED <<usd, phase, fixes, rigVars, toolVars>>

SpecCharacter == InitCharacter /\ [][CharacterRest]_vars

(***************************************************************************)
(* rig_retargeting_gui.py: the joint-mapping window                        *)
(***************************************************************************)

\* how many Auto Assign passes a behaviour holds
MaxAuto == 2

\* static.retargeting_templates restricted to Roles: the roles in dict order, and for each
\* role its joint name in each of the templates of retargeting_templates_names
TemplateRoles == <<"Hips", "Spine", "LeftArm">>

retargeting_templates ==
    [r \in Roles |->
        CASE r = "Hips"    -> <<"Hips", "pelvis", "hip", "CC_Base_Hip", "QuickRigCharacter_Hips">>
          [] r = "Spine"   -> <<"Spine", "spine_03", "abdomen", "CC_Base_Waist",
                                "QuickRigCharacter_Spine">>
          [] r = "LeftArm" -> <<"LeftArm", "upperarm_l", "lShldr", "CC_Base_L_Upperarm",
                                "QuickRigCharacter_LeftArm">>]

\* x in a Python list
InList(x, seq) == \E i \in 1..Len(seq) : seq[i] = x

\* list.remove(x): the first occurrence goes
Remove(seq, x) ==
    LET i == CHOOSE k \in 1..Len(seq) : seq[k] = x /\ \A m \in 1..(k - 1) : seq[m] # x
    IN SubSeq(seq, 1, i - 1) \o SubSeq(seq, i + 1, Len(seq))

\* joint.split(':')[-1]
BaseName(joint) == joint[Len(joint)]

\* cmds.ls(type='joint')
SceneJoints == {joints[i] : i \in 1..Len(joints)}

\* the state a callback of the joint-mapping window reads and writes
CurRig ==
    [status |-> status, vdata |-> validation_data, ret |-> returned,
     export_enable |-> export_enable, btn_char |-> export_char_btn, btn_all |-> export_all_btn,
     face_geo |-> face_geo, face_mesh |-> face_mesh, face_btn |-> face_btn,
     rig_selection |-> rig_selection, raised |-> FALSE, ee_ran |-> "no",
     writes |-> NoWrites, map |-> mapping_dict, bones |-> set_bones, stored |-> rig_mapping]

\* the write as it would be if the mapping were kept in memory only
WriteMappingSkipped(s) == s

\* utilities.write_data('rig_mapping', self.mapping_dict)
WriteMapping(s) == IF s.raised THEN s ELSE [s EXCEPT !.stored = [has |-> TRUE, map |-> s.map]]

\* RigRetargetingUI.validate_rig_remapping
validate_rig_remapping(s) ==
    enable_export(CheckAndUpdate(s, "retargeting_check", retargeting_check(s.stored)))

\* RigRetargetingUI.check_remapping_status (the status icons of the window are left out)
check_remapping_status(s, run_validation) ==
    IF s.raised \/ ~run_validation THEN s ELSE validate_rig_remapping(s)

\* RigRetargetingUI.set_bone: replace = None appends, anything else is removed first
\* (list.remove raises ValueError when it is not in the list)
set_bone(s, key, bone, replace, save) ==
    IF s.raised THEN s
    ELSE LET s1 == [s EXCEPT !.map[key] = bone]
             s2 == IF replace = NoJoint THEN [s1 EXCEPT !.bones = Append(@, bone)]
                   ELSE IF ~InList(replace, s1.bones) THEN [s1 EXCEPT !.raised = TRUE]
                   ELSE [s1 EXCEPT !.bones = Append(Remove(@, replace), bone)]
         IN IF save THEN WriteMapping(s2) ELSE s2

\* RigRetargetingUI.clear_bone
clear_bone(s, key, check_status) ==
    IF s.raised THEN s
    ELSE LET current_text == s.map[key]
             s1 == [s EXCEPT !.map[key] = NoJoint,
                             !.bones = IF InList(current_text, @) THEN Remove(@, current_text)
                                       ELSE @]
         IN check_remapping_status(WriteMapping(s1), check_status)

\* the test of set_bone_button and set_bone_field that lets a joint be assigned (lines 389, 414)
NotInSetBonesOff(bones, bone) == TRUE
NotInSetBones(bones, bone) == ~InList(bone, bones)

\* RigRetargetingUI.set_bone_button; selection is cmds.ls(sl=True, type='joint')
set_bone_button(s, key, selection) ==
    IF Len(selection) = 1 /\ NotInSetBones(s.bones, selection[1])
    THEN check_remapping_status(set_bone(s, key, selection[1], NoJoint, TRUE), TRUE)
    ELSE s

\* set_bone_field as it would be if a rejected text left the role alone
set_bone_field_keeping(s, key, text, identical) ==
    LET current_text == s.map[key]
        s1 == IF text = NoJoint THEN clear_bone(s, key, TRUE)
              ELSE IF text \in SceneJoints /\ NotInSetBones(s.bones, text)
                      /\ ~(text = current_text /\ identical)
                   THEN set_bone(s, key, text, current_text, TRUE)
              ELSE s
    IN check_remapping_status(s1, TRUE)

\* RigRetargetingUI.set_bone_field; identical tells whether a text equal to the current
\* one is the same object ('text is not current_text' compares identities)
set_bone_field(s, key, text, identical) ==
    LET current_text == s.map[key]
        s1 == IF text = NoJoint THEN clear_bone(s, key, TRUE)
              ELSE IF text = current_text /\ identical THEN s
              ELSE IF text \in SceneJoints /\ NotInSetBones(s.bones, text)
                   THEN set_bone(s, key, text, current_text, TRUE)
              ELSE clear_bone(s, key, TRUE)
    IN check_remapping_status(s1, TRUE)

\* RigRetargetingUI.clear_all_fields
RECURSIVE ClearFrom(_, _)
ClearFrom(s, i) ==
    IF i > Len(TemplateRoles) THEN s ELSE ClearFrom(clear_bone(s, TemplateRoles[i], FALSE), i + 1)

clear_all_fields(s) == check_remapping_status(ClearFrom(s, 1), TRUE)

\* get_hip_bone of auto_resolve_single_template: the stripped name of the root joint when
\* it is a hip name, else of the first joint that has one, else None ("")
RECURSIVE FirstHip(_, _)
FirstHip(js, i) ==
    IF i > Len(js) THEN ""
    ELSE IF InList(BaseName(js[i]), retargeting_templates["Hips"]) THEN BaseName(js[i])
    ELSE FirstHip(js, i + 1)

get_hip_bone(js) ==
    IF InList(BaseName(js[1]), retargeting_templates["Hips"]) THEN BaseName(js[1])
    ELSE FirstHip(js, 1)

\* get_naming_index_from_hip as it would be if it fell back on the first template
get_naming_index_or_first(js) ==
    LET hip_templates == retargeting_templates["Hips"]
        found == {i \in 1..Len(hip_templates) : hip_templates[i] = get_hip_bone(js)}
    IN IF found = {} THEN 1 ELSE CHOOSE i \in found : \A k \in found : i <= k

\* get_naming_index_from_hip: templates count from 1 here, and 0 stands for -1
get_naming_index_from_hip(js) ==
    LET hip_templates == retargeting_templates["Hips"]
        found == {i \in 1..Len(hip_templates) : hip_templates[i] = get_hip_bone(js)}
    IN IF found = {} THEN 0 ELSE CHOOSE i \in found : \A k \in found : i <= k

\* rev_map as it would be if it were built from the names of every template
rev_map_any_template(index, base_name) ==
    LET hits == {i \in 1..Len(TemplateRoles) :
                    InList(base_name, retargeting_templates[TemplateRoles[i]])}
    IN IF hits = {} THEN "none" ELSE TemplateRoles[CHOOSE i \in hits : \A k \in hits : i <= k]

\* rev_map.get(base_name) for template index: of the roles that carry the name the dict
\* comprehension keeps the last one; "none" stands for None
rev_map(index, base_name) ==
    LET hits == {i \in 1..Len(TemplateRoles) :
                    retargeting_templates[TemplateRoles[i]][index] = base_name}
    IN IF hits = {} THEN "none" ELSE TemplateRoles[CHOOSE i \in hits : \A k \in hits : k <= i]

\* the loop as it would be if a joint that is in set_bones already were turned down the
\* way set_bone_field turns it down, by clearing the role
RECURSIVE ResolveSingleGuarded(_, _, _, _)
ResolveSingleGuarded(s, js, i, index) ==
    IF i > Len(js) THEN s
    ELSE LET key == rev_map(index, BaseName(js[i]))
         IN ResolveSingleGuarded(IF key = "none" THEN s
                                 ELSE IF InList(js[i], s.bones) THEN clear_bone(s, key, FALSE)
                                 ELSE set_bone(s, key, js[i], NoJoint, FALSE),
                                 js, i + 1, index)

\* the loop of auto_resolve_single_template over all_joints (lines 610-616)
RECURSIVE ResolveSingle(_, _, _, _)
ResolveSingle(s, js, i, index) ==
    IF i > Len(js) THEN s
    ELSE LET key == rev_map(index, BaseName(js[i]))
         IN ResolveSingle(IF key = "none" THEN s ELSE set_bone(s, key, js[i], NoJoint, FALSE),
                          js, i + 1, index)

\* RigRetargetingUI.auto_resolve_single_template; without a root joint in scene_data the
\* queries of lines 567 and 592 either raise or find nothing, and nothing is assigned
auto_resolve_single_template(s, js) ==
    IF s.rig_selection = "None" THEN {s, [s EXCEPT !.raised = TRUE]}
    ELSE LET index == get_naming_index_from_hip(js)
         IN IF index = 0 THEN {s}
            ELSE {check_remapping_status(WriteMapping(ResolveSingle(s, js, 1, index)), TRUE)}

\* the first role, in dict order, whose template names hold base_name ("none": no role)
FirstRole(base_name) ==
    LET hits == {i \in 1..Len(TemplateRoles) :
                    InList(base_name, retargeting_templates[TemplateRoles[i]])}
    IN IF hits = {} THEN "none" ELSE TemplateRoles[CHOOSE i \in hits : \A k \in hits : i <= k]

\* the loop of auto_resolve_any_map over all_joints (lines 548-554)
RECURSIVE ResolveAny(_, _, _)
ResolveAny(s, js, i) ==
    IF i > Len(js) THEN s
    ELSE LET key == FirstRole(BaseName(js[i]))
         IN ResolveAny(IF key = "none" THEN s ELSE set_bone(s, key, js[i], NoJoint, FALSE),
                       js, i + 1)

\* RigRetargetingUI.auto_resolve_any_map
auto_resolve_any_map(s, js) ==
    IF s.rig_selection = "None" THEN {s, [s EXCEPT !.raised = TRUE]}
    ELSE {check_remapping_status(WriteMapping(ResolveAny(s, js, 1)), TRUE)}

\* RigRetargetingUI.auto_resolve
auto_resolve(s, js, any_map) ==
    IF any_map THEN auto_resolve_any_map(s, js) ELSE auto_resolve_single_template(s, js)

CommitRig(s, op, joint, given) ==
    /\ Commit(s, op)
    /\ mapping_dict' = s.map
    /\ set_bones' = s.bones
    /\ rig_mapping' = s.stored
    /\ released' = joint
    /\ attempt' = given

\* what set_bone_button is given: the kind of selection it finds
Selected(selection) ==
    CASE Len(selection) = 0              -> "nothing_selected"
      [] Len(selection) > 1              -> "many_selected"
      [] InList(selection[1], set_bones) -> "joint_in_use"
      [] OTHER                           -> "free_joint"

\* what set_bone_field is given: the kind of text typed into the field of a role
Typed(key, text, identical) ==
    CASE text = NoJoint                        -> "empty_text"
      [] text = mapping_dict[key] /\ identical -> "same_text"
      [] text \notin SceneJoints               -> "not_a_joint"
      [] InList(text, set_bones)               -> "joint_in_use"
      [] OTHER                                 -> "free_joint"

\* what cmds.ls(sl=True, type='joint') can return: nothing, one joint, more than one
Selections == {<< >>} \cup {<<j>> : j \in SceneJoints} \cup {<<joints[1], joints[2]>>}

\* the '+' button of a role: bound to set_bone_button while the role holds no joint
SetBoneButton ==
    /\ \E key \in Roles, selection \in Selections :
         /\ mapping_dict[key] = NoJoint
         /\ CommitRig(set_bone_button(CurRig, key, selection), "set_bone_button", NoJoint,
                      Selected(selection))
    /\ UNCHANGED <<usd, phase, fixes, joints, autos, toolVars>>

\* the text field of a role: enterCommand is set_bone_field
SetBoneField ==
    /\ \E key \in Roles, text \in SceneJoints \cup {NoJoint, <<"locator1">>} :
       \E identical \in IF text = mapping_dict[key] THEN BOOLEAN ELSE {FALSE} :
         CommitRig(set_bone_field(CurRig, key, text, identical), "set_bone_field",
                   IF text = NoJoint THEN mapping_dict[key] ELSE NoJoint,
                   Typed(key, text, identical))
    /\ UNCHANGED <<usd, phase, fixes, joints, autos, toolVars>>

\* the '-' button of a role: bound to clear_bone while the role holds a joint
ClearBone ==
    /\ \E key \in Roles :
         /\ mapping_dict[key] # NoJoint
         /\ CommitRig(clear_bone(CurRig, key, TRUE), "clear_bone", mapping_dict[key], "none")
    /\ UNCHANGED <<usd, phase, fixes, joints, autos, toolVars>>

\* the 'Reset All' button
ClearAllFields ==
    /\ CommitRig(clear_all_fields(CurRig), "clear_all_fields", NoJoint, "none")
    /\ UNCHANGED <<usd, phase, fixes, joints, autos, toolVars>>

\* the 'Auto Assign Bones' button (auto_resolve), in either mode
AutoResolve ==
    /\ autos < MaxAuto
    /\ autos' = autos + 1
    /\ \E any_map \in BOOLEAN : \E s \in auto_resolve(CurRig, joints, any_map) :
         CommitRig(s, "auto_resolve", NoJoint,
                   IF any_map THEN "any_map" ELSE "single_template")
    /\ UNCHANGED <<usd, phase, fixes, joints, toolVars>>

\* the runs of main.run on a scene without face mesh and without stored mapping in which
\* scene_saved and rig_check pass or fail and every other check that is executed passes
FirstRuns ==
    {s \in validation_run(Constructed([st |-> "skip", stored |-> FALSE]), VALIDATION_NORMAL,
                          [has |-> FALSE, map |-> NoMapping]) :
        /\ \A k \in {"scene_saved", "rig_check"} : s.ret[k] \in {"none", "pass", "fail"}
        /\ \A k \in ValidatorIds \ {"scene_saved", "rig_check"} : s.ret[k] \in {"none", "pass"}}

\* main.run has run its validation on one of the scenes, then the joint-mapping window
\* was opened: RigRetargetingUI.__init__ with check_saved_fields
InitWindow(scenes) ==
    /\ \E s \in FirstRuns :
         /\ status = s.status
         /\ validation_data = s.vdata
         /\ returned = s.ret
         /\ export_enable = s.export_enable
         /\ export_char_btn = s.btn_char
         /\ export_all_btn = s.btn_all
         /\ face_geo = s.face_geo
         /\ face_mesh = s.face_mesh
         /\ face_btn = s.face_btn
         /\ rig_selection = s.rig_selection
         /\ raised = s.raised
         /\ writes = s.writes
    /\ ee_ran = "no"
    /\ usd = FALSE
    /\ phase = "ready"
    /\ lastOp = "main_run"
    /\ fixes = {}
    /\ mapping_dict = NoMapping
    /\ set_bones = << >>
    /\ rig_mapping = [has |-> TRUE, map |-> NoMapping]
    /\ joints \in scenes
    /\ autos = 0
    /\ released = NoJoint
    /\ attempt = "none"
    /\ NoTools

InitRig == InitWindow(Scenes)

NextRig ==
    \/ SetBoneButton
    \/ SetBoneField
    \/ ClearBone
    \/ ClearAllFields
    \/ AutoResolve

SpecRig == InitRig /\ [][NextRig]_vars

\* the joint-mapping window used by hand only: no Auto Assign
NextManual ==
    \/ SetBoneButton
    \/ SetBoneField
    \/ ClearBone
    \/ ClearAllFields

SpecManual == InitRig /\ [][NextManual]_vars

\* a hierarchy without any hip name: the names of its joints are a Wonder Dynamics role
\* name and an Unreal Engine one
SceneNoHip == << <<"root">>, <<"spine_03">>, <<"LeftArm">> >>

\* Auto Assign on mappings made with the '+' buttons, a hierarchy without hip included
InitAuto == InitWindow(Scenes \cup {SceneNoHip})

NextAuto ==
    \/ SetBoneButton
    \/ AutoResolve

SpecAuto == InitAuto /\ [][NextAuto]_vars

\* every operation of the joint-mapping window on the hierarchy root, 'hip', 'LeftArm'
InitDaz == InitWindow({SceneDaz})

SpecDaz == InitDaz /\ [][NextRig]_vars

(***************************************************************************)
(* validation_tools.py: retargeting_check on a scene that lost joints      *)
(***************************************************************************)

\* a joint that was mapped and deleted from the scene afterwards
DeletedJoint == <<"pelvis">>

\* the loop as it would be if it kept the stored joints whatever the scene holds
DropMissingOff(all_bones, existing) == all_bones

\* retargeting_check, lines 560-566: all_bones[key] = None for every stored joint that
\* cmds.objExists does not find
DropMissing(all_bones, existing) ==
    [key \in Roles |-> IF all_bones[key] # NoJoint /\ all_bones[key] \notin existing
                       THEN NoJoint ELSE all_bones[key]]

\* retargeting_check, lines 564-567: scene_data.retarget_gui_inst.clear_bone(key=key) for
\* the keys that lost their joint, in dict order; an exception it raises is caught. The
\* check that clear_bone runs again from inside stores a mapping and a status that line
\* 569 and the caller write over
RECURSIVE ClearMissing(_, _, _, _)
ClearMissing(s, all_bones, existing, i) ==
    IF i > Len(TemplateRoles) THEN s
    ELSE LET key == TemplateRoles[i]
             s1 == IF all_bones[key] # NoJoint /\ all_bones[key] \notin existing
                   THEN [clear_bone(s, key, TRUE) EXCEPT !.raised = FALSE]
                   ELSE s
         IN ClearMissing(s1, all_bones, existing, i + 1)

\* validation_tools.retargeting_check followed by the caller's update_status; window tells
\* whether the joint-mapping window is there to take clear_bone
retargeting_check_in_scene(s, existing, window) ==
    IF ~s.stored.has THEN CheckAndUpdate(s, "retargeting_check", "fail")
    ELSE LET all_bones == s.stored.map
             s1 == IF window THEN ClearMissing(s, all_bones, existing, 1) ELSE s
             s2 == [s1 EXCEPT !.stored = [has |-> TRUE, map |-> DropMissing(all_bones, existing)]]
         IN CheckAndUpdate(s2, "retargeting_check", retargeting_check(s2.stored))

\* the values of a stored mapping: None, a joint of the scene, or the deleted joint
StoredJoints == {NoJoint, DeletedJoint} \cup {SceneWD[i] : i \in 1..Len(SceneWD)}

\* the non-null values of a mapping, in dict order
RECURSIVE BonesOf(_, _)
BonesOf(map, i) ==
    IF i > Len(TemplateRoles) THEN << >>
    ELSE (IF map[TemplateRoles[i]] = NoJoint THEN << >> ELSE << map[TemplateRoles[i]] >>)
            \o BonesOf(map, i + 1)

\* a first run was made, joints were mapped and stored, then a joint was deleted from the
\* scene; the joint-mapping window is open on the stored mapping, or closed
InitRetarget ==
    /\ \E s \in FirstRuns :
         /\ status = s.status
         /\ validation_data = s.vdata
         /\ returned = s.ret
         /\ export_enable = s.export_enable
         /\ export_char_btn = s.btn_char
         /\ export_all_btn = s.btn_all
         /\ face_geo = s.face_geo
         /\ face_mesh = s.face_mesh
         /\ face_btn = s.face_btn
         /\ rig_selection = s.rig_selection
         /\ raised = s.raised
         /\ writes = s.writes
    /\ ee_ran = "no"
    /\ usd = FALSE
    /\ phase = "ready"
    /\ lastOp = "main_run"
    /\ fixes = {}
    /\ rig_mapping \in {[has |-> FALSE, map |-> NoMapping]}
                          \cup {[has |-> TRUE, map |-> m] : m \in [Roles -> StoredJoints]}
    /\ \E window \in BOOLEAN :
         /\ attempt = IF window THEN "window_open" ELSE "window_closed"
         /\ mapping_dict = IF window THEN rig_mapping.map ELSE NoMapping
         /\ set_bones = IF window THEN BonesOf(rig_mapping.map, 1) ELSE << >>
    /\ joints = SceneWD
    /\ autos = 0
    /\ released = NoJoint
    /\ NoTools

\* the first joint of a stored mapping, in dict order, that the scene does not hold
FirstMissing(rm, existing) ==
    LET missing == SelectSeq(BonesOf(rm.map, 1), LAMBDA j : j \notin existing)
    IN IF rm.has /\ missing # << >> THEN missing[1] ELSE NoJoint

\* one call of validation_tools.retargeting_check, its status taken by the caller
RetargetingCheck ==
    /\ lastOp = "main_run"
    /\ CommitRig(retargeting_check_in_scene(CurRig, SceneJoints, attempt = "window_open"),
                 "retargeting_check", FirstMissing(rig_mapping, SceneJoints), attempt)
    /\ UNCHANGED <<usd, phase, fixes, joints, autos, toolVars>>

SpecRetarget == InitRetarget /\ [][RetargetingCheck]_vars

(***************************************************************************)
(* static.retargeting_templates and the reverse map of one template        *)
(***************************************************************************)

\* static.retargeting_templates_names
retargeting_templates_names ==
    <<"Wonder Dynamics", "Unreal Engine", "DAZ 3d", "Character Creator 4", "Quick Rig">>

\* static.retargeting_templates in dict order: each role with its joint name in each of
\* the templates
RetargetingTable ==
    <<
       <<"Hips", <<"Hips", "pelvis", "hip", "CC_Base_Hip", "QuickRigCharacter_Hips">>>>,
       <<"LeftUpLeg", <<"LeftUpLeg", "thigh_l", "lThigh", "CC_Base_L_Thigh",
            "QuickRigCharacter_LeftUpLeg">>>>,
       <<"RightUpLeg", <<"RightUpLeg", "thigh_r", "rThigh", "CC_Base_R_Thigh",
            "QuickRigCharacter_RightUpLeg">>>>,
       <<"Spine", <<"Spine", "spine_03", "abdomen", "CC_Base_Waist", "QuickRigCharacter_Spine">>>>,
       <<"LeftLeg", <<"LeftLeg", "calf_l", "lShin", "CC_Base_L_Calf",
            "QuickRigCharacter_LeftLeg">>>>,
       <<"RightLeg", <<"RightLeg", "calf_r", "rShin", "CC_Base_R_Calf",
            "QuickRigCharacter_RightLeg">>>>,
       <<"Spine1", <<"Spine1", "spine_04", "abdomen2", "CC_Base_Spine01",
            "QuickRigCharacter_Spine1">>>>,
       <<"LeftFoot", <<"LeftFoot", "foot_l", "lFoot", "CC_Base_L_Foot",
            "QuickRigCharacter_LeftFoot">>>>,
       <<"RightFoot", <<"RightFoot", "foot_r", "rFoot", "CC_Base_R_Foot",
            "QuickRigCharacter_RightFoot">>>>,
       <<"Spine2", <<"Spine2", "spine_05", "chest", "CC_Base_Spine02",
            "QuickRigCharacter_Spine2">>>>,
       <<"LeftToeBase", <<"LeftToeBase", "ball_l", "lToe", "CC_Base_L_ToeBase",
            "QuickRigCharacter_LeftToeBase">>>>,
       <<"RightToeBase", <<"RightToeBase", "ball_r", "rToe", "CC_Base_R_ToeBase",
            "QuickRigCharacter_RightToeBase">>>>,
       <<"Neck", <<"Neck", "neck_01", "neck", "CC_Base_NeckTwist01", "QuickRigCharacter_Neck">>>>,
       <<"LeftShoulder", <<"LeftShoulder", "clavicle_l", "lCollar", "CC_Base_L_Clavicle",
            "QuickRigCharacter_LeftShoulder">>>>,
       <<"RightShoulder", <<"RightShoulder", "clavicle_r", "rCollar", "CC_Base_R_Clavicle",
            "QuickRigCharacter_RightShoulder">>>>,
       <<"Head", <<"Head", "head", "head", "CC_Base_Head", "QuickRigCharacter_Head">>>>,
       <<"LeftArm", <<"LeftArm", "upperarm_l", "lShldr", "CC_Base_L_Upperarm",
            "QuickRigCharacter_LeftArm">>>>,
       <<"RightArm", <<"RightArm", "upperarm_r", "rShldr", "CC_Base_R_Upperarm",
            "QuickRigCharacter_RightArm">>>>,
       <<"LeftForeArm", <<"LeftForeArm", "lowerarm_l", "lForeArm", "CC_Base_L_Forearm",
            "QuickRigCharacter_LeftForeArm">>>>,
       <<"RightForeArm", <<"RightForeArm", "lowerarm_r", "rForeArm", "CC_Base_R_Forearm",
            "QuickRigCharacter_RightForeArm">>>>,
       <<"LeftHand", <<"LeftHand", "hand_l", "lHand", "CC_Base_L_Hand",
            "QuickRigCharacter_LeftHand">>>>,
       <<"RightHand", <<"RightHand", "hand_r", "rHand", "CC_Base_R_Hand",
            "QuickRigCharacter_RightHand">>>>,
       <<"LeftHandIndex1", <<"LeftHandIndex1", "index_01_l", "lIndex1", "CC_Base_L_Index1",
            "QuickRigCharacter_LeftHandIndex1">>>>,
       <<"LeftHandIndex2", <<"LeftHandIndex2", "index_02_l", "lIndex2", "CC_Base_L_Index2",
            "QuickRigCharacter_LeftHandIndex2">>>>,
       <<"LeftHandIndex3", <<"LeftHandIndex3", "index_03_l", "lIndex3", "CC_Base_L_Index3",
            "QuickRigCharacter_LeftHandIndex3">>>>,
       <<"LeftHandMiddle1", <<"LeftHandMiddle1", "middle_01_l", "lMid1", "CC_Base_L_Mid1",
            "QuickRigCharacter_LeftHandMiddle1">>>>,
       <<"LeftHandMiddle2", <<"LeftHandMiddle2", "middle_02_l", "lMid2", "CC_Base_L_Mid2",
            "QuickRigCharacter_LeftHandMiddle2">>>>,
       <<"LeftHandMiddle3", <<"LeftHandMiddle3", "middle_03_l", "lMid3", "CC_Base_L_Mid3",
            "QuickRigCharacter_LeftHandMiddle3">>>>,
       <<"LeftHandPinky1", <<"LeftHandPinky1", "pinky_01_l", "lPinky1", "CC_Base_L_Pinky1",
            "QuickRigCharacter_LeftHandPinky1">>>>,
       <<"LeftHandPinky2", <<"LeftHandPinky2", "pinky_02_l", "lPinky2", "CC_Base_L_Pinky2",
            "QuickRigCharacter_LeftHandPinky2">>>>,
       <<"LeftHandPinky3", <<"LeftHandPinky3", "pinky_03_l", "lPinky3", "CC_Base_L_Pinky3",
            "QuickRigCharacter_LeftHandPinky3">>>>,
       <<"LeftHandRing1", <<"LeftHandRing1", "ring_01_l", "lRing1", "CC_Base_L_Ring1",
            "QuickRigCharacter_LeftHandRing1">>>>,
       <<"LeftHandRing2", <<"LeftHandRing2", "ring_02_l", "lRing2", "CC_Base_L_Ring2",
            "QuickRigCharacter_LeftHandRing2">>>>,
       <<"LeftHandRing3", <<"LeftHandRing3", "ring_03_l", "lRing3", "CC_Base_L_Ring3",
            "QuickRigCharacter_LeftHandRing3">>>>,
       <<"LeftHandThumb1", <<"LeftHandThumb1", "thumb_01_l", "lThumb1", "CC_Base_L_Thumb1",
            "QuickRigCharacter_LeftHandThumb1">>>>,
       <<"LeftHandThumb2", <<"LeftHandThumb2", "thumb_02_l", "lThumb2", "CC_Base_L_Thumb2",
            "QuickRigCharacter_LeftHandThumb2">>>>,
       <<"LeftHandThumb3", <<"LeftHandThumb3", "thumb_03_l", "lThumb3", "CC_Base_L_Thumb3",
            "QuickRigCharacter_LeftHandThumb3">>>>,
       <<"RightHandIndex1", <<"RightHandIndex1", "index_01_r", "rIndex1", "CC_Base_R_Index1",
            "QuickRigCharacter_RightHandIndex1">>>>,
       <<"RightHandIndex2", <<"RightHandIndex2", "index_02_r", "rIndex2", "CC_Base_R_Index2",
            "QuickRigCharacter_RightHandIndex2">>>>,
       <<"RightHandIndex3", <<"RightHandIndex3", "index_03_r", "rIndex3", "CC_Base_R_Index3",
            "QuickRigCharacter_RightHandIndex3">>>>,
       <<"RightHandMiddle1", <<"RightHandMiddle1", "middle_01_r", "rMid1", "CC_Base_R_Mid1",
            "QuickRigCharacter_RightHandMiddle1">>>>,
       <<"RightHandMiddle2", <<"RightHandMiddle2", "middle_02_r", "rMid2", "CC_Base_R_Mid2",
            "QuickRigCharacter_RightHandMiddle2">>>>,
       <<"RightHandMiddle3", <<"RightHandMiddle3", "middle_03_r", "rMid3", "CC_Base_R_Mid3",
            "QuickRigCharacter_RightHandMiddle3">>>>,
       <<"RightHandPinky1", <<"RightHandPinky1", "pinky_01_r", "rPinky1", "CC_Base_R_Pinky1",
            "QuickRigCharacter_RightHandPinky1">>>>,
       <<"RightHandPinky2", <<"RightHandPinky2", "pinky_02_r", "rPinky2", "CC_Base_R_Pinky2",
            "QuickRigCharacter_RightHandPinky2">>>>,
       <<"RightHandPinky3", <<"RightHandPinky3", "pinky_03_r", "rPinky3", "CC_Base_R_Pinky3",
            "QuickRigCharacter_RightHandPinky3">>>>,
       <<"RightHandRing1", <<"RightHandRing1", "ring_01_r", "rRing1", "CC_Base_R_Ring1",
            "QuickRigCharacter_RightHandRing1">>>>,
       <<"RightHandRing2", <<"RightHandRing2", "ring_02_r", "rRing2", "CC_Base_R_Ring2",
            "QuickRigCharacter_RightHandRing2">>>>,
       <<"RightHandRing3", <<"RightHandRing3", "ring_03_r", "rRing3", "CC_Base_R_Ring3",
            "QuickRigCharacter_RightHandRing3">>>>,
       <<"RightHandThumb1", <<"RightHandThumb1", "thumb_01_r", "rThumb1", "CC_Base_R_Thumb1",
            "QuickRigCharacter_RightHandThumb1">>>>,
       <<"RightHandThumb2", <<"RightHandThumb2", "thumb_02_r", "rThumb2", "CC_Base_R_Thumb2",
            "QuickRigCharacter_RightHandThumb2">>>>,
       <<"RightHandThumb3", <<"RightHandThumb3", "thumb_03_r", "rThumb3", "CC_Base_R_Thumb3",
            "QuickRigCharacter_RightHandThumb3">>>>
    >>

AllRoles == {RetargetingTable[i][1] : i \in 1..Len(RetargetingTable)}

\* the reverse map as it would be if it were always keyed by the first template
RevMapFirstTemplate(index) ==
    LET names == {RetargetingTable[i][2][1] : i \in 1..Len(RetargetingTable)}
    IN [n \in names |->
           RetargetingTable[CHOOSE i \in 1..Len(RetargetingTable) :
                               /\ RetargetingTable[i][2][1] = n
                               /\ \A k \in (i + 1)..Len(RetargetingTable) :
                                      RetargetingTable[k][2][1] # n][1]]

\* rev_map = {v[index]: k for k, v in static.retargeting_templates.items()}: of the roles
\* that carry a name the last one stays
RevMapFor(index) ==
    LET names == {RetargetingTable[i][2][index] : i \in 1..Len(RetargetingTable)}
    IN [n \in names |->
           RetargetingTable[CHOOSE i \in 1..Len(RetargetingTable) :
                               /\ RetargetingTable[i][2][index] = n
                               /\ \A k \in (i + 1)..Len(RetargetingTable) :
                                      RetargetingTable[k][2][index] # n][1]]

\* dict.get(name): None ("none") for a name that is not a key
DictGet(d, name) == IF name \in DOMAIN d THEN d[name] ELSE "none"

\* v[index] of role
NameOf(role, index) ==
    RetargetingTable[CHOOSE i \in 1..Len(RetargetingTable) : RetargetingTable[i][1] = role][2][index]

\* a template index and a role of the table
InitTemplates ==
    /\ InitUI
    /\ InitNoRig
    /\ rev_index \in 1..Len(retargeting_templates_names)
    /\ rev_role \in AllRoles
    /\ rev_found = [done |-> FALSE, role |-> "none", size |-> 0]
    /\ IdleStore
    /\ IdleBypass
    /\ IdlePlates
    /\ IdleExport

\* line 609 for template rev_index, then rev_map.get of the name rev_role has in it
BuildRevMap ==
    /\ ~rev_found.done
    /\ LET rev == RevMapFor(rev_index)
       IN rev_found' = [done |-> TRUE,
                        role |-> DictGet(rev, NameOf(rev_role, rev_index)),
                        size |-> Cardinality(DOMAIN rev)]
    /\ UNCHANGED <<windowVars, rev_index, rev_role, storeVars, bypassVars, plateVars, exportVars>>

SpecTemplates == InitTemplates /\ [][BuildRevMap]_vars

(***************************************************************************)
(* utilities.py: write_data and read_data                                  *)
(***************************************************************************)

\* the values of a stored rig mapping: None, or the name of a joint
JointNames == {PyNone, PyStr("Hips"), PyStr("rig:Spine"), PyStr("null")}

\* the rig mappings handed to write_data: the first roles of the mapping, in dict order,
\* each with None or a joint name
RigMappings ==
    UNION { { [i \in 1..n |-> <<TemplateRoles[i], f[i]>>] : f \in [1..n -> JointNames] }
            : n \in 0..Len(TemplateRoles) }

\* a value as json.dumps would write it if it left the quotes of a string out
DumpsValueBare(v) ==
    IF v = PyNone \/ v = PyStr("null") THEN <<"null">> ELSE <<"string", v[2]>>

\* json.dumps of a value: null for None, a quoted string for a string
DumpsValue(v) == IF v = PyNone THEN <<"null">> ELSE <<"string", v[2]>>

\* json.dumps of the members of a dict from the i-th on
RECURSIVE DumpsMembers(_, _)
DumpsMembers(d, i) ==
    IF i > Len(d) THEN << >>
    ELSE (IF i > 1 THEN << <<",">> >> ELSE << >>)
            \o << <<"string", d[i][1]>>, <<":">>, DumpsValue(d[i][2]) >>
            \o DumpsMembers(d, i + 1)

\* json.dumps(dict_data): the text as its sequence of tokens
json_dumps(d) == << <<"{">> >> \o DumpsMembers(d, 1) \o << <<"}">> >>

\* json.loads of a value token
LoadsValue(tok) == IF tok = <<"null">> THEN PyNone ELSE PyStr(tok[2])

\* json.loads of the members that start at token i
RECURSIVE LoadsMembers(_, _)
LoadsMembers(text, i) ==
    IF text[i] = <<"}">> THEN << >>
    ELSE LET j == IF text[i] = <<",">> THEN i + 1 ELSE i
         IN << <<text[j][2], LoadsValue(text[j + 2])>> >> \o LoadsMembers(text, j + 3)

\* json.loads(text)
json_loads(text) == LoadsMembers(text, 2)

\* base64.b64encode: the text in groups of three, the last group padded
RECURSIVE b64encode(_)
b64encode(text) ==
    IF Len(text) = 0 THEN << >>
    ELSE IF Len(text) <= 3 THEN << [chars |-> text, pad |-> 3 - Len(text)] >>
    ELSE << [chars |-> SubSeq(text, 1, 3), pad |-> 0] >> \o b64encode(SubSeq(text, 4, Len(text)))

\* base64.b64decode: the groups put together again, the padding dropped
RECURSIVE b64decode(_)
b64decode(code) == IF Len(code) = 0 THEN << >> ELSE Head(code).chars \o b64decode(Tail(code))

\* utilities.write_data: cmds.fileInfo(key, encoded_data); a later query returns the
\* list with that one value
write_data(fi, key, dict_data) == [fi EXCEPT ![key] = << b64encode(json_dumps(dict_data)) >>]

\* utilities.read_data
read_data(fi, key) ==
    LET data == fi[key]
    IN IF data # << >> THEN Some(json_loads(b64decode(data[1]))) ELSE Nothing

\* a scene header in which neither key is stored
InitStore ==
    /\ InitUI
    /\ InitNoRig
    /\ IdleTemplates
    /\ IdleStore
    /\ IdleBypass
    /\ IdlePlates
    /\ IdleExport

\* write_data('rig_mapping', m)
WriteData ==
    /\ \E m \in RigMappings :
         /\ file_info' = write_data(file_info, "rig_mapping", m)
         /\ written' = Some(m)
    /\ read_back' = [key |-> "none", data |-> Nothing]
    /\ UNCHANGED <<windowVars, templateVars, bypassVars, plateVars, exportVars>>

\* read_data(key)
ReadData ==
    /\ \E key \in StoreKeys : read_back' = [key |-> key, data |-> read_data(file_info, key)]
    /\ UNCHANGED <<windowVars, templateVars, file_info, written, bypassVars, plateVars, exportVars>>

NextStore ==
    \/ WriteData
    \/ ReadData

SpecStore == InitStore /\ [][NextStore]_vars

(***************************************************************************)
(* validation_fixes.py: remove_pre_skin_history                            *)
(***************************************************************************)

\* how the user can leave the dialog: one of its two buttons, or closing it
Gestures == {"Apply Bypass Fix", "Abort", "dismiss"}

\* the dialog as it would answer if closing it gave the default button
ConfirmDialogDefault(gesture) == IF gesture = "dismiss" THEN "Apply Bypass Fix" ELSE gesture

\* cmds.confirmDialog(..., defaultButton='Apply Bypass Fix', cancelButton='Abort',
\* dismissString='Abort'): the label of the button, dismissString when it was closed
ConfirmDialog(gesture) == IF gesture = "dismiss" THEN "Abort" ELSE gesture

\* validation_fixes.remove_pre_skin_history: with the fix confirmed, the skinCluster found
\* in the history of a listed mesh is connected to its .inMesh
remove_pre_skin_history(conn, listed, skinned, answer) ==
    IF answer = "Apply Bypass Fix"
    THEN [m \in Meshes |-> IF m \in listed /\ m \in skinned THEN "skinCluster" ELSE conn[m]]
    ELSE conn

\* history_check has listed meshes whose .inMesh comes from a node it does not support;
\* some meshes have a skinCluster in their history
InitBypass ==
    /\ InitUI
    /\ InitNoRig
    /\ IdleTemplates
    /\ IdleStore
    /\ IdlePlates
    /\ IdleExport
    /\ bypass_meshes \in [listed : SUBSET Meshes, skinned : SUBSET Meshes]
    /\ in_mesh = [m \in Meshes |-> IF m \in bypass_meshes.listed THEN "history"
                                   ELSE IF m \in bypass_meshes.skinned THEN "skinCluster"
                                   ELSE "none"]
    /\ dialog = "none"

\* one call of remove_pre_skin_history
RemovePreSkinHistory ==
    /\ \E gesture \in Gestures :
         /\ dialog' = gesture
         /\ in_mesh' = remove_pre_skin_history(in_mesh, bypass_meshes.listed,
                                                bypass_meshes.skinned, ConfirmDialog(gesture))
    /\ UNCHANGED <<windowVars, templateVars, storeVars, bypass_meshes, plateVars, exportVars>>

SpecBypass == InitBypass /\ [][RemovePreSkinHistory]_vars

(***************************************************************************)
(* wd_load_plates/plates_utils.py: add_all_plates                          *)
(***************************************************************************)

\* how many frames a plate folder holds, and how many shots the sequencer has
MaxFrames == 2
MaxShots == 2

\* the shots of the sequencer by their camera; "" is a shot without camera
ShotLists == UNION { [1..n -> {"cam_a", "cam_b", ""}] : n \in 0..MaxShots }

\* the surroundings of a call: is Maya's magick there, how many source frames match the
\* pattern, do their names carry a frame number, how many frames the conversion leaves
PlateEnvs ==
    [magick : BOOLEAN, src : 0..MaxFrames, numbered : BOOLEAN, out : 0..MaxFrames,
     shots : ShotLists]

\* convert_sequence_to_maya_compatible raises IOError (lines 86, 91, 96)
ConvertRaises(env) == ~env.magick \/ env.src = 0 \/ ~env.numbered

\* the conversion as it would be if it fell back on the source frames
convert_wait_with_fallback(env) ==
    IF ConvertRaises(env) THEN << >>
    ELSE IF env.out = 0 THEN [i \in 1..env.src |-> i]
    ELSE [i \in 1..env.out |-> i]

\* convert_sequence_to_maya_compatible_wait: the frames found after the conversion, none
\* after an IOError
convert_sequence_to_maya_compatible_wait(env) ==
    IF ConvertRaises(env) THEN << >> ELSE [i \in 1..env.out |-> i]

\* get_cut_data_from_sequencer: the shots that have a camera
get_cut_data_from_sequencer(env) == SelectSeq(env.shots, LAMBDA camera : camera # "")

\* add_all_plates: the cameras that get an image plane, in order; the list it returns
\* names one image plane for each
add_all_plates(env) ==
    LET cut_data_list == get_cut_data_from_sequencer(env)
    IN IF cut_data_list = << >> THEN << >>
       ELSE IF convert_sequence_to_maya_compatible_wait(env) = << >> THEN << >>
       ELSE cut_data_list

InitPlates ==
    /\ InitUI
    /\ InitNoRig
    /\ IdleTemplates
    /\ IdleStore
    /\ IdleBypass
    /\ plate_env \in PlateEnvs
    /\ image_planes = << >>
    /\ plates_result = [called |-> FALSE, planes |-> << >>]
    /\ IdleExport

\* one call of add_all_plates(folder, dst_folder)
AddAllPlates ==
    /\ ~plates_result.called
    /\ image_planes' = add_all_plates(plate_env)
    /\ plates_result' = [called |-> TRUE, planes |-> add_all_plates(plate_env)]
    /\ UNCHANGED <<windowVars, templateVars, storeVars, bypassVars, plate_env, exportVars>>

SpecPlates == InitPlates /\ [][AddAllPlates]_vars

(***************************************************************************)
(* Properties of the checklist and of the export gate                      *)
(***************************************************************************)

\* the callbacks that call validation_run and then enable_export
RunOps == {"start_validation", "toggle_usd", "fix_button"}

\* a validation run went through and enable_export was computed after it
CompletedRun == lastOp \in RunOps /\ ee_ran = "done"

AllAccepted == \A v \in ValidatorIds : status[v] \in accepted_statuses

Pos(v) == CHOOSE i \in 1..Len(ValidatorOrder) : ValidatorOrder[i] = v

After(g) == {v \in ValidatorIds : Pos(v) > Pos(g)}

SceneChecks == {"scene_saved", "referenced_data"}

GatingValidators ==
    {"scene_saved", "referenced_data", "geo_check", "rig_check", "rig_group_check",
     "material_type_check"}

\* the checks character_validation runs only inside the branch that tests gate g
GatedBy(g) ==
    CASE g \in SceneChecks           -> ValidatorIds \ SceneChecks
      [] g = "rig_group_check"       -> After(g) \ {"history_check"}
      [] OTHER                       -> After(g)

GateFailed(g) == IF g \in SceneChecks THEN status[g] # "pass" ELSE status[g] = "fail"

\* C1 (as stated): once enable_export has run, the export flag is true exactly when every
\* validator's status is pass, skip, warning or warning_fix; a validator that has no
\* status yet makes it false.
C1_FlagIffAllAccepted ==
    ee_ran # "no" => (export_enable <=> AllAccepted)

\* C2 (as stated): after a completed run followed by enable_export, a gating validator
\* that failed (a scene check: that did not pass) leaves every validator after it in the
\* fixed order 'aborted' and the export flag false.
C2_AllAfterGateAborted ==
    CompletedRun =>
        \A g \in GatingValidators :
            GateFailed(g) => ~export_enable /\ \A v \in After(g) : status[v] = "aborted"

\* C2 (amended): after a completed run followed by enable_export, a gating validator that
\* failed (a scene check: that did not pass) leaves every check that runs only behind its
\* gate 'aborted' and the export flag false.
C2_GatedChecksAborted ==
    CompletedRun =>
        \A g \in GatingValidators :
            GateFailed(g) => ~export_enable /\ \A v \in GatedBy(g) : status[v] = "aborted"

\* a completed run in which scene_saved failed while referenced_data was still checked
C2_Witness ==
    /\ CompletedRun
    /\ status["scene_saved"] = "fail"
    /\ status["referenced_data"] = "pass"
    /\ status["geo_check"] = "aborted"
    /\ ~export_enable

\* the statuses of gate g with which a run goes on, as the specification lists them
StatedGate(g) ==
    IF g = "rig_check" /\ usd THEN {"pass", "warning_fix"} ELSE {"pass"}

\* the statuses of gate g with which a run goes on, in either mode
AmendedGate(g) == IF g = "rig_check" THEN {"pass", "warning_fix"} ELSE {"pass"}

\* C7 (as stated): a check behind a gate is executed only when the gate returned a status
\* of its accepted set: {pass} for the scene checks, geo_check, rig_group_check and
\* material_type_check; for rig_check {pass} in normal mode and {pass, warning_fix} in
\* USD mode only.
C7_StatedGates ==
    \A g \in GatingValidators : \A v \in GatedBy(g) :
        returned[v] # "none" => returned[g] \in StatedGate(g)

\* C7 (amended): the same, with {pass, warning_fix} accepted for rig_check in both modes.
C7_AmendedGates ==
    \A g \in GatingValidators : \A v \in GatedBy(g) :
        returned[v] # "none" => returned[g] \in AmendedGate(g)

\* a run in normal mode that went past rig_check with status warning_fix
C7_Witness ==
    /\ ~usd
    /\ returned["rig_check"] = "warning_fix"
    /\ returned["rig_group_check"] # "none"

RigGated ==
    {"rig_group_check", "history_check", "poly_count_check", "retargeting_check", "ik_check",
     "face_check", "material_type_check"}

\* C8 (as stated): in a run that reaches rig_check, each of the seven checks behind it is
\* executed when rig_check passed and 'aborted' when rig_check failed.
C8_RigGatesSeven ==
    lastOp \in RunOps \cup {"main_run"} /\ returned["rig_check"] # "none" =>
        /\ returned["rig_check"] = "pass" => \A v \in RigGated : returned[v] # "none"
        /\ returned["rig_check"] = "fail" => \A v \in RigGated : status[v] = "aborted"

\* C10 (as stated): after fix_button the whole checklist was computed again, every
\* validator executed or aborted by a run from the first scene check, and enable_export
\* was computed.
C10_FixRevalidates ==
    lastOp = "fix_button" =>
        /\ ee_ran = "done"
        /\ \A v \in ValidatorIds : returned[v] # "none" \/ status[v] = "aborted"

C9_XgenButton ==
    lastOp = "enable_export" =>
        (export_all_btn <=> AllAccepted /\ status["xGen_check"] = "pass")

\* export is enabled while xGen_check carries 'warning': 'Export with xGen' stays disabled
C9_Witness ==
    /\ lastOp = "enable_export"
    /\ status["xGen_check"] = "warning"
    /\ export_char_btn
    /\ ~export_all_btn

(***************************************************************************)
(* Properties of the joint mapping                                         *)
(***************************************************************************)

Assigned == {r \in Roles : mapping_dict[r] # NoJoint}

\* C3 (as stated): in every reachable state of the joint-mapping window, Auto Assign
\* included, no joint is the value of two distinct roles of the rig mapping.
C3_NoJointInTwoRoles ==
    \A r1, r2 \in Assigned : mapping_dict[r1] = mapping_dict[r2] => r1 = r2

\* C4: from a mapping in which no joint is assigned to two roles, manual operations alone
\* (set_bone_button, set_bone_field, clear_bone, clear_all_fields) never make a joint the
\* value of two distinct roles.
C4_ManualKeepsUnique ==
    \A r1 \in Roles : \A r2 \in Roles \ {r1} :
        mapping_dict[r1] = NoJoint \/ mapping_dict[r1] # mapping_dict[r2]

\* every role was assigned by hand, the last one through its text field
C4_Witness ==
    /\ lastOp = "set_bone_field"
    /\ Assigned = Roles
    /\ Len(set_bones) = Cardinality(Roles)

\* C5 (as stated): right after a role that held joint j was cleared, j is released: the
\* test that lets set_bone_button and set_bone_field assign j accepts it.
C5_ClearReleases ==
    released # NoJoint => NotInSetBones(set_bones, released)

(***************************************************************************)
(* Properties of the manual assignment                                     *)
(***************************************************************************)

\* the step was a set_bone_button call that ended in one of its three warnings
ButtonRejected ==
    /\ lastOp' = "set_bone_button"
    /\ attempt' \in {"nothing_selected", "many_selected", "joint_in_use"}

\* the step was a set_bone_field call that ended in one of its two warnings
FieldRejected ==
    /\ lastOp' = "set_bone_field"
    /\ attempt' \in {"joint_in_use", "not_a_joint"}

\* the step took the joint of role key out of the mapping, out of set_bones (one
\* occurrence) and out of the stored mapping, and left the other roles alone
RoleCleared(key) ==
    /\ mapping_dict' = [mapping_dict EXCEPT ![key] = NoJoint]
    /\ set_bones' = IF InList(mapping_dict[key], set_bones)
                    THEN Remove(set_bones, mapping_dict[key]) ELSE set_bones
    /\ rig_mapping' = [has |-> TRUE, map |-> mapping_dict']

Count(x, seq) == Cardinality({i \in 1..Len(seq) : seq[i] = x})

\* the step gave role key, which held a joint, a different joint
Overridden(key) ==
    /\ mapping_dict[key] # NoJoint
    /\ mapping_dict'[key] # NoJoint
    /\ mapping_dict'[key] # mapping_dict[key]

\* C12 (as stated): when set_bone_field gives a role that holds joint j_old a different
\* joint j_new, j_old is no longer in the in-use list afterwards and j_new is in it
\* exactly once.
C12_OverrideSwapsInUse ==
    [][lastOp' = "set_bone_field" =>
         \A key \in Roles :
            Overridden(key) => /\ ~InList(mapping_dict[key], set_bones')
                               /\ Count(mapping_dict'[key], set_bones') = 1]_vars

(***************************************************************************)
(* Properties of Auto Assign with a single template                        *)
(***************************************************************************)

\* the step was an Auto Assign pass in single-template mode
SinglePass == lastOp' = "auto_resolve" /\ attempt' = "single_template"

\* the position of the hip's stripped name in the Hips template list (0: it has none)
TemplateIndex == get_naming_index_from_hip(joints)

\* C13: every role R that a single-template pass assigns gets a joint whose stripped name
\* is the name of R in the template the hip selects; a joint that carries the name of a
\* role in another template only is not assigned.
C13_OneTemplatePerPass ==
    [][SinglePass =>
         \A R \in Roles :
            mapping_dict'[R] # mapping_dict[R] =>
               /\ TemplateIndex # 0
               /\ BaseName(mapping_dict'[R]) = retargeting_templates[R][TemplateIndex]]_vars

\* a pass on the hierarchy root, 'hip', 'LeftArm' took the DAZ 3d template from 'hip' and
\* left alone the joint that carries the Wonder Dynamics name of role LeftArm
C13_Witness ==
    /\ lastOp = "auto_resolve"
    /\ attempt = "single_template"
    /\ joints = SceneDaz
    /\ mapping_dict["Hips"] = <<"hip">>
    /\ mapping_dict["LeftArm"] = NoJoint
    /\ ~InList(<<"LeftArm">>, set_bones)

\* no joint of the hierarchy has a stripped name of the Hips template list
NoHipName ==
    \A i \in 1..Len(joints) : ~InList(BaseName(joints[i]), retargeting_templates["Hips"])

C15_SinglePassIdempotent ==
    [][lastOp = "auto_resolve" /\ attempt = "single_template" /\ SinglePass =>
         mapping_dict' = mapping_dict]_vars

\* two single-template passes in a row on the hierarchy root, 'hip', 'LeftArm': the
\* second one went through set_bone again
C15_Witness ==
    /\ lastOp = "auto_resolve"
    /\ attempt = "single_template"
    /\ autos = 2
    /\ joints = SceneDaz
    /\ set_bones = << <<"hip">>, <<"hip">> >>
    /\ mapping_dict = [NoMapping EXCEPT !["Hips"] = <<"hip">>]

(***************************************************************************)
(* Properties of the statuses within a run                                 *)
(***************************************************************************)

C16_ReverseMapInverts ==
    rev_found.done =>
        /\ rev_found.role = rev_role
        /\ rev_found.size = Cardinality(AllRoles)

\* the reverse map of 'DAZ 3d' was asked for 'head', the name Head has in 'Unreal Engine'
\* too, and answered Head
C16_Witness ==
    /\ rev_found.done
    /\ retargeting_templates_names[rev_index] = "DAZ 3d"
    /\ rev_role = "Head"
    /\ NameOf("Head", rev_index) = NameOf("Head", rev_index - 1)
    /\ rev_found.role = "Head"

(***************************************************************************)
(* Properties of the stored data                                           *)
(***************************************************************************)

\* C17: read_data('rig_mapping') after write_data('rig_mapping', m) returns a map equal to
\* m; read_data of a key that was never written returns None, which a stored empty map
\* is not.
C17_WriteThenRead ==
    /\ read_back.key = "rig_mapping" /\ ~written.none =>
          read_back.data = written /\ ~read_back.data.none
    /\ read_back.key = "rig_mapping" /\ written.none => read_back.data = Nothing
    /\ read_back.key = "rig_status" => read_back.data = Nothing

\* a mapping with a joint called 'null' and a role without joint was written and read back
C17_Witness ==
    /\ read_back.key = "rig_mapping"
    /\ written = Some(<< <<"Hips", PyStr("null")>>, <<"Spine", PyNone>> >>)
    /\ read_back.data = written

(***************************************************************************)
(* Properties of the history bypass                                        *)
(***************************************************************************)

\* C18: a call of remove_pre_skin_history whose dialog is answered 'Abort' or closed
\* changes the .inMesh connection of no mesh.
C18_AbortChangesNothing ==
    [][dialog' \in {"Abort", "dismiss"} => in_mesh' = in_mesh]_vars

\* the dialog was closed while a listed mesh with a skinCluster was waiting for the fix,
\* and the mesh still has its history
C18_Witness ==
    /\ dialog = "dismiss"
    /\ \E m \in bypass_meshes.listed \cap bypass_meshes.skinned : in_mesh[m] = "history"

(***************************************************************************)
(* Properties of the plate loader                                          *)
(***************************************************************************)

\* C19: when magick is missing, no source frame is found or the conversion leaves no
\* frame, add_all_plates attaches an image plane to no camera and returns an empty list.
C19_NoFramesNoPlanes ==
    plates_result.called
        /\ (~plate_env.magick \/ plate_env.src = 0 \/ plate_env.out = 0) =>
            image_planes = << >> /\ plates_result.planes = << >>

\* the conversion ran on numbered source frames and left nothing: the two cameras of the
\* sequencer got no image plane
C19_Witness ==
    /\ plates_result.called
    /\ plate_env.magick /\ plate_env.src > 0 /\ plate_env.numbered /\ plate_env.out = 0
    /\ plate_env.shots = <<"cam_a", "cam_b">>
    /\ image_planes = << >>
    /\ plates_result.planes = << >>

(***************************************************************************)
(* Properties of the abort step                                            *)
(***************************************************************************)

\* the last callback ended in abort_validation: only that function writes 'aborted'
AbortStepRan == ~raised /\ \E v \in ValidatorIds : status[v] = "aborted"

RunReturned == lastOp \in RunOps \cup {"main_run"} /\ ~raised

\* C22: when validation_run returns, the status of every validator was written during
\* that run, by its check or by the abort step: it is what the check returned in this
\* run, or 'aborted'; no status of an earlier run or of an earlier UI action is left.
C22_RunRebuildsChecklist ==
    RunReturned =>
        \A v \in ValidatorIds : writes[v] >= 1 /\ status[v] \in {returned[v], "aborted"}

\* a face geometry was set with the '+' button after an aborted run, then 'Refresh
\* Validation' ran and aborted again: the face validator lost the status the button gave
C22_Witness ==
    /\ lastOp = "start_validation"
    /\ ~raised
    /\ face_geo
    /\ returned["face_check"] = "none"
    /\ status["face_check"] = "aborted"

(***************************************************************************)
(* Properties of the export                                                *)
(***************************************************************************)

\* the last callback was one of the two export buttons
ExportRan == lastOp \in {"export_without_xgen", "export_with_xgen"}

\* C23: initiate_export runs the validation again first and calls export_data.export only
\* if the export flag is true after that run; when the USD warning is answered 'Cancel
\* and enable USD support', the validation is run in USD mode and nothing is exported.
C23_ExportOnlyAfterValidation ==
    ExportRan =>
        /\ revalidated # "none"
        /\ exported # "none" => export_enable /\ ee_ran = "done"
        /\ usd_answer = "Cancel and enable USD support" =>
              usd /\ revalidated = VALIDATION_USD /\ exported = "none"

\* 'Export without xGen' was clicked and the warning answered 'Continue'; the validation
\* that ran first found the scene changed and left the export disabled: nothing exported
C23_Witness ==
    /\ lastOp = "export_without_xgen"
    /\ usd_answer = "Continue"
    /\ revalidated = VALIDATION_NORMAL
    /\ ~raised
    /\ ee_ran = "done"
    /\ ~export_enable
    /\ exported = "none"

WithoutMissing(map) == [r \in Roles |-> IF map[r] \in SceneJoints THEN map[r] ELSE NoJoint]

\* C24: retargeting_check first drops from the stored rig mapping every joint that is no
\* longer in the scene, then reports 'fail' if no mapping is stored or Hips is unmapped,
\* 'warning' if Hips is mapped and another role is unmapped, 'pass' if and only if every
\* role is mapped.
C24_DropThenClassify ==
    [][lastOp' = "retargeting_check" =>
         /\ rig_mapping.has =>
               rig_mapping' = [has |-> TRUE, map |-> WithoutMissing(rig_mapping.map)]
         /\ ~rig_mapping.has => rig_mapping' = rig_mapping
         /\ status'["retargeting_check"] =
               IF ~rig_mapping'.has \/ rig_mapping'.map["Hips"] = NoJoint THEN "fail"
               ELSE IF \E r \in Roles : rig_mapping'.map[r] = NoJoint THEN "warning"
               ELSE "pass"]_vars

\* every role was mapped, the joint of Hips was deleted: the check has dropped it from the
\* stored mapping and from the open window, and reports 'fail'
C24_Witness ==
    /\ lastOp = "retargeting_check"
    /\ attempt = "window_open"
    /\ released = DeletedJoint
    /\ rig_mapping = [has |-> TRUE,
                      map |-> [NoMapping EXCEPT !["Spine"] = <<"rig", "Spine">>,
                                                !["LeftArm"] = <<"upperarm_l">>]]
    /\ mapping_dict = rig_mapping.map
    /\ set_bones = << <<"rig", "Spine">>, <<"upperarm_l">> >>
    /\ status["retargeting_check"] = "fail"
    /\ validation_data["retargeting_check"] = "fail"

(***************************************************************************)
(* Properties of the stored mapping after an operation                     *)
(***************************************************************************)

\* the step was a callback of the joint-mapping window that changed the rig mapping and
\* returned
MappingChanged ==
    /\ lastOp' \in {"set_bone_button", "set_bone_field", "clear_bone", "clear_all_fields",
                     "auto_resolve"}
    /\ mapping_dict' # mapping_dict
    /\ ~raised'

\* C25: after a joint-mapping operation that changes the mapping returns, the stored
\* rig_mapping equals the in-memory mapping, the status of retargeting_check is the one
\* that mapping gives, and the export flag and buttons were computed again from the
\* checklist.
C25_StoredAndRevalidated ==
    [][MappingChanged =>
         /\ rig_mapping' = [has |-> TRUE, map |-> mapping_dict']
         /\ status'["retargeting_check"] = retargeting_check(rig_mapping')
         /\ validation_data'["retargeting_check"] = status'["retargeting_check"]
         /\ ee_ran' = "done"
         /\ export_enable' = (\A v \in ValidatorIds : status'[v] \in accepted_statuses)
         /\ export_char_btn' = export_enable']_vars

\* Auto Assign mapped Hips and left another role empty on a checklist whose earlier run
\* had aborted: the mapping is stored, retargeting_check went to 'warning' and the export
\* stays disabled
C25_Witness ==
    /\ lastOp = "auto_resolve"
    /\ ~raised
    /\ ee_ran = "done"
    /\ mapping_dict["Hips"] # NoJoint
    /\ \E r \in Roles : mapping_dict[r] = NoJoint
    /\ rig_mapping = [has |-> TRUE, map |-> mapping_dict]
    /\ status["retargeting_check"] = "warning"
    /\ status["rig_check"] = "fail"
    /\ ~export_enable

(***************************************************************************)
(* Properties of the in-use list                                           *)
(***************************************************************************)

\* C26 (as stated): in every reachable state of the joint-mapping window, Auto Assign
\* included, set_bones holds exactly the non-null values of the rig mapping, each exactly
\* once: no joint twice, and no joint that is not assigned to a role.
C26_InUseIsMappingValues ==
    /\ \A i \in 1..Len(set_bones) : Count(set_bones[i], set_bones) = 1
    /\ {set_bones[i] : i \in 1..Len(set_bones)} = {mapping_dict[r] : r \in Assigned}

(***************************************************************************)
(* Properties of the gating between user operations                        *)
(***************************************************************************)

\* the step was a face-geometry callback or a callback of the joint-mapping window
EditStep ==
    lastOp' \in {"set_face_geo", "remove_face_geo", "set_bone_button", "set_bone_field",
                  "clear_bone", "clear_all_fields", "auto_resolve"}

\* after the step a gate in front of validator v has a status with which no run goes on
GateShutBefore(v) ==
    \E g \in GatingValidators : v \in GatedBy(g) /\ status'[g] \notin AmendedGate(g)

\* C27 (as stated): a joint-mapping edit or a face-geometry set/remove made after an
\* aborted run never takes a validator from 'aborted' to another status while a gate in
\* front of it still has a status that is not accepted.
C27_AbortedKeptBehindShutGate ==
    [][EditStep =>
         \A v \in ValidatorIds :
            status[v] = "aborted" /\ status'[v] # "aborted" => ~GateShutBefore(v)]_vars

(***************************************************************************)
(* Properties of the registration of the validators                        *)
(***************************************************************************)

\* C30 (as stated): every validator id for which a run reports a status is a registered
\* validator of static.validation_windows_data, so a run in which rig_check is accepted
\* goes past the all_group_check step without a missing-validator error.
C30_ReportedValidatorsRegistered ==
    lastOp \in RunOps \cup {"main_run"} =>
        /\ \A k \in DataKeys : returned[k] # "none" => k \in ValidatorIds
        /\ returned["rig_check"] \in RigGate => ~raised
====
